---- MODULE Spec2Model ----
(***************************************************************************)
(* Model of scripts/validate_aws.py: the five AWS prerequisite checks and  *)
(* the main() runner that sequences them and derives the exit status.      *)
(*                                                                         *)
(* Text is modelled as a sequence of tokens (a Python str), a details text *)
(* as a sequence of lines (what print_result gets from details.split).     *)
(* A provider call is modelled by its response: Ok(body) or Fail(err),     *)
(* err being the exception the call raises.                                *)
(***************************************************************************)
EXTENDS Integers, Sequences, FiniteSets, TLC

VARIABLES pc, session, results, calls, exit_code, input, output

vars == <<pc, session, results, calls, exit_code, input, output>>

(***************************************************************************)
(* Bounds of the model                                                     *)
(***************************************************************************)
MaxOutputs == 2
MaxStatements == 2
MaxProviders == 2

(***************************************************************************)
(* Python str operations                                                   *)
(***************************************************************************)
\* needle in hay (str.__contains__): needle occurs as a contiguous run
Contains(needle, hay) ==
    \E i \in 0..(Len(hay) - Len(needle)) :
        SubSeq(hay, i + 1, i + Len(needle)) = needle

\* sep.join(parts): the parts glued with sep between them
RECURSIVE Join(_, _)
Join(sep, parts) ==
    IF parts = << >> THEN << >>
    ELSE IF Len(parts) = 1 THEN parts[1]
    ELSE parts[1] \o <<sep>> \o Join(sep, Tail(parts))

\* dict.get(key, default)
Get(d, key, default) == IF key \in DOMAIN d THEN d[key] ELSE default

\* str(bool)
StrBool(b) == IF b THEN "True" ELSE "False"

(***************************************************************************)
(* Exceptions of botocore                                                  *)
(***************************************************************************)
ClientError(code, op, msg) ==
    [class |-> "ClientError", code |-> code, op |-> op, msg |-> msg]

NoCredentialsError ==
    [class |-> "NoCredentialsError", code |-> "", op |-> "",
     msg |-> <<"Unable to locate credentials">>]

EndpointConnectionError ==
    [class |-> "EndpointConnectionError", code |-> "", op |-> "",
     msg |-> <<"Could not connect to the endpoint URL">>]

\* str(e)
Str(e) ==
    IF e.class = "ClientError"
    THEN <<"An error occurred (", e.code, ") when calling the ", e.op,
           " operation: ">> \o e.msg
    ELSE e.msg

Ok(body) == [ok |-> TRUE, body |-> body]
Fail(err) == [ok |-> FALSE, err |-> err]

\* one provider call as the provider sees it
Call(api, resp) == [api |-> api, ok |-> resp.ok]

(***************************************************************************)
(* ValidationResult and what a check function does: return a result or     *)
(* let an exception propagate to its caller.                               *)
(***************************************************************************)
None == << >>

ValidationResult(passed, message, details) ==
    [passed |-> passed, message |-> message, details |-> details]

Returned(result, issued) == [raised |-> FALSE, result |-> result, calls |-> issued]
Raised(err, issued) == [raised |-> TRUE, exc |-> err.class, calls |-> issued]

(***************************************************************************)
(* validate_aws_credentials                                                *)
(***************************************************************************)
validate_aws_credentials(sts) ==
    LET issued == <<Call("sts:GetCallerIdentity", sts)>> IN
    IF sts.ok
    THEN Returned(ValidationResult(TRUE, <<"AWS credentials are valid">>,
                    << <<"Account: ", sts.body.Account>>,
                       <<"ARN: ", sts.body.Arn>> >>), issued)
    ELSE IF sts.err.class = "NoCredentialsError"
    THEN Returned(ValidationResult(FALSE, <<"No AWS credentials found">>,
                    << <<"Configure credentials via environment variables, ~/.aws/credentials, or IAM role">> >>),
                  issued)
    ELSE IF sts.err.class = "ClientError"
    THEN Returned(ValidationResult(FALSE, <<"AWS credentials are invalid">>,
                    << Str(sts.err) >>), issued)
    ELSE Raised(sts.err, issued)

(***************************************************************************)
(* validate_cloudformation_stack                                           *)
(***************************************************************************)
SettledStatuses_OnlyCreate == {"CREATE_COMPLETE"}

SettledStatuses == {"CREATE_COMPLETE", "UPDATE_COMPLETE"}

\* {o["OutputKey"]: o["OutputValue"] for o in outs} then one "k: v" line per
\* item: a dict keeps the place of a key's first insertion and its last value
RECURSIVE LastValue(_, _)
LastValue(outs, k) ==
    IF outs[Len(outs)].OutputKey = k THEN outs[Len(outs)].OutputValue
    ELSE LastValue(SubSeq(outs, 1, Len(outs) - 1), k)

RECURSIVE OutputLines(_, _)
OutputLines(outs, i) ==
    IF i > Len(outs) THEN << >>
    ELSE IF \E j \in 1..(i - 1) : outs[j].OutputKey = outs[i].OutputKey
    THEN OutputLines(outs, i + 1)
    ELSE << <<outs[i].OutputKey, ": ", LastValue(outs, outs[i].OutputKey)>> >>
           \o OutputLines(outs, i + 1)

DeployCommand(stack_name) ==
    << <<"Deploy the stack with:">>,
       <<"aws cloudformation deploy \\">>,
       <<"  --template-file cloudformation/github-oidc-terraform-state.yaml \\">>,
       <<"  --stack-name ", stack_name, " \\">>,
       <<"  --capabilities CAPABILITY_NAMED_IAM">> >>

validate_cloudformation_stack(stack_name, describe) ==
    LET issued == <<Call("cloudformation:DescribeStacks", describe)>> IN
    IF describe.ok
    THEN LET stack == describe.body.Stacks[1]
             status == stack.StackStatus
             details == OutputLines(Get(stack, "Outputs", << >>), 1)
         IN IF status \in SettledStatuses
            THEN Returned(ValidationResult(TRUE,
                     <<"Stack '", stack_name, "' is deployed (status: ", status, ")">>,
                     IF details # << >> THEN details ELSE None), issued)
            ELSE Returned(ValidationResult(FALSE,
                     <<"Stack '", stack_name, "' is in unexpected state: ", status>>,
                     << <<"Stack should be in CREATE_COMPLETE or UPDATE_COMPLETE state">> >>),
                   issued)
    ELSE IF describe.err.class = "ClientError"
    THEN IF Contains(<<"does not exist">>, Str(describe.err))
         THEN Returned(ValidationResult(FALSE,
                  <<"Stack '", stack_name, "' does not exist">>,
                  DeployCommand(stack_name)), issued)
         ELSE Returned(ValidationResult(FALSE, <<"Error checking stack">>,
                  << Str(describe.err) >>), issued)
    ELSE Raised(describe.err, issued)

(***************************************************************************)
(* validate_s3_bucket                                                      *)
(***************************************************************************)
PublicAccessFlags ==
    {"BlockPublicAcls", "BlockPublicPolicy", "IgnorePublicAcls", "RestrictPublicBuckets"}

VersioningStatus(versioning_body) == Get(versioning_body, "Status", "Disabled")

EncryptionStatus(encryption) == IF encryption.ok THEN "Enabled" ELSE "Disabled"

PublicBlocked_ThreeFlags(pab) ==
    IF pab.ok
    THEN LET config == pab.body.PublicAccessBlockConfiguration
         IN \A f \in PublicAccessFlags \ {"RestrictPublicBuckets"} : Get(config, f, FALSE)
    ELSE FALSE

PublicBlocked(pab) ==
    IF pab.ok
    THEN LET config == pab.body.PublicAccessBlockConfiguration
         IN \A f \in PublicAccessFlags : Get(config, f, FALSE)
    ELSE FALSE

BucketDetails_NoPublic(versioning_status, encryption_status, public_blocked) ==
    << <<"Versioning: ", versioning_status>>,
       <<"Encryption: ", encryption_status>> >>

BucketDetails(versioning_status, encryption_status, public_blocked) ==
    << <<"Versioning: ", versioning_status>>,
       <<"Encryption: ", encryption_status>>,
       <<"Public Access Blocked: ", StrBool(public_blocked)>> >>

\* the outer except ClientError of validate_s3_bucket
BucketError(bucket_name, e) ==
    IF e.code = "404"
    THEN ValidationResult(FALSE, <<"Bucket '", bucket_name, "' does not exist">>,
             << <<"Deploy the CloudFormation stack to create the bucket">> >>)
    ELSE IF e.code = "403"
    THEN ValidationResult(FALSE, <<"Access denied to bucket '", bucket_name, "'">>,
             << <<"Check IAM permissions for s3:HeadBucket">> >>)
    ELSE ValidationResult(FALSE, <<"Error checking bucket">>, << Str(e) >>)

validate_s3_bucket(bucket_name, head, versioning, encryption, pab) ==
    LET c1 == <<Call("s3:HeadBucket", head)>>
        c2 == c1 \o <<Call("s3:GetBucketVersioning", versioning)>>
        c3 == c2 \o <<Call("s3:GetBucketEncryption", encryption)>>
        c4 == c3 \o <<Call("s3:GetPublicAccessBlock", pab)>>
    IN
    IF ~head.ok
    THEN IF head.err.class = "ClientError"
         THEN Returned(BucketError(bucket_name, head.err), c1)
         ELSE Raised(head.err, c1)
    ELSE IF ~versioning.ok
    THEN IF versioning.err.class = "ClientError"
         THEN Returned(BucketError(bucket_name, versioning.err), c2)
         ELSE Raised(versioning.err, c2)
    ELSE IF ~encryption.ok /\ encryption.err.class # "ClientError"
    THEN Raised(encryption.err, c3)
    ELSE IF ~pab.ok /\ pab.err.class # "ClientError"
    THEN Raised(pab.err, c4)
    ELSE LET versioning_status == VersioningStatus(versioning.body)
             encryption_status == EncryptionStatus(encryption)
             public_blocked == PublicBlocked(pab)
             details == BucketDetails(versioning_status, encryption_status, public_blocked)
         IN IF versioning_status = "Enabled" /\ encryption_status = "Enabled"
               /\ public_blocked
            THEN Returned(ValidationResult(TRUE,
                     <<"Bucket '", bucket_name, "' is properly configured">>, details), c4)
            ELSE Returned(ValidationResult(FALSE,
                     <<"Bucket '", bucket_name, "' exists but may not be properly configured">>,
                     details), c4)

(***************************************************************************)
(* validate_iam_role                                                       *)
(***************************************************************************)
Issuer == <<"token.actions.githubusercontent.com">>

SubKey == "token.actions.githubusercontent.com:sub"

\* f"repo:{github_org}/{github_repo}:"
RepoPattern(github_org, github_repo) == <<"repo:", github_org, "/", github_repo, ":">>

\* the statement names the GitHub issuer as a federated principal
HasOidc(stmt) ==
    Contains(Issuer, Get(Get(stmt, "Principal", << >>), "Federated", << >>))

\* the statement's StringLike subject condition
SubCondition(stmt) ==
    Get(Get(Get(stmt, "Condition", << >>), "StringLike", << >>), SubKey, << >>)

CorrectRepo(stmt, github_org, github_repo) ==
    Contains(RepoPattern(github_org, github_repo), SubCondition(stmt))

validate_iam_role(role_name, github_org, github_repo, get_role) ==
    LET issued == <<Call("iam:GetRole", get_role)>> IN
    IF get_role.ok
    THEN LET statements == Get(get_role.body.Role.AssumeRolePolicyDocument, "Statement", << >>)
             has_oidc == \E i \in 1..Len(statements) : HasOidc(statements[i])
             correct_repo == \E i \in 1..Len(statements) :
                                 /\ HasOidc(statements[i])
                                 /\ CorrectRepo(statements[i], github_org, github_repo)
         IN IF has_oidc /\ correct_repo
            THEN Returned(ValidationResult(TRUE,
                     <<"Role '", role_name, "' is properly configured">>,
                     << <<"Trust policy allows: ", github_org, "/", github_repo>> >>), issued)
            ELSE IF has_oidc
            THEN Returned(ValidationResult(FALSE,
                     <<"Role '", role_name, "' exists but trust policy may be incorrect">>,
                     << <<"Expected repo: ", github_org, "/", github_repo>> >>), issued)
            ELSE Returned(ValidationResult(FALSE,
                     <<"Role '", role_name, "' does not have OIDC trust policy">>,
                     << <<"Role should trust token.actions.githubusercontent.com">> >>), issued)
    ELSE IF get_role.err.class = "ClientError"
    THEN IF Contains(<<"NoSuchEntity">>, Str(get_role.err))
         THEN Returned(ValidationResult(FALSE,
                  <<"Role '", role_name, "' does not exist">>,
                  << <<"Deploy the CloudFormation stack to create the role">> >>), issued)
         ELSE Returned(ValidationResult(FALSE, <<"Error checking role">>,
                  << Str(get_role.err) >>), issued)
    ELSE Raised(get_role.err, issued)

(***************************************************************************)
(* validate_oidc_provider                                                  *)
(***************************************************************************)
\* index of the first listed provider whose ARN names the issuer, 0 if none
RECURSIVE FirstGithubProvider(_, _)
FirstGithubProvider(providers, i) ==
    IF i > Len(providers) THEN 0
    ELSE IF Contains(Issuer, providers[i].Arn) THEN i
    ELSE FirstGithubProvider(providers, i + 1)

\* the provider calls validate_oidc_provider issues
OidcCalls_Retry(list, get, found) ==
    IF ~list.ok THEN <<Call("iam:ListOpenIDConnectProviders", list),
                       Call("iam:ListOpenIDConnectProviders", list)>>
    ELSE IF found THEN <<Call("iam:ListOpenIDConnectProviders", list),
                         Call("iam:GetOpenIDConnectProvider", get)>>
    ELSE <<Call("iam:ListOpenIDConnectProviders", list)>>

OidcCalls(list, get, found) ==
    IF list.ok /\ found
    THEN <<Call("iam:ListOpenIDConnectProviders", list),
           Call("iam:GetOpenIDConnectProvider", get)>>
    ELSE <<Call("iam:ListOpenIDConnectProviders", list)>>

validate_oidc_provider(list, get) ==
    IF ~list.ok
    THEN IF list.err.class = "ClientError"
         THEN Returned(ValidationResult(FALSE, <<"Error checking OIDC provider">>,
                  << Str(list.err) >>), OidcCalls(list, get, FALSE))
         ELSE Raised(list.err, OidcCalls(list, get, FALSE))
    ELSE LET providers == Get(list.body, "OpenIDConnectProviderList", << >>)
             k == FirstGithubProvider(providers, 1)
         IN IF k = 0
            THEN Returned(ValidationResult(FALSE, <<"GitHub OIDC provider not found">>,
                     << <<"Deploy the CloudFormation stack to create the OIDC provider">> >>),
                   OidcCalls(list, get, FALSE))
            ELSE LET github_provider == providers[k].Arn
                     issued == OidcCalls(list, get, TRUE)
                 IN IF get.ok
                    THEN LET audiences == Get(get.body, "ClientIDList", << >>)
                         IN Returned(ValidationResult(TRUE,
                                <<"GitHub OIDC provider is configured">>,
                                << <<"ARN: ">> \o github_provider,
                                   <<"Audiences: ">> \o
                                     Join(", ", [i \in 1..Len(audiences) |-> <<audiences[i]>>]) >>),
                              issued)
                    ELSE IF get.err.class = "ClientError"
                    THEN Returned(ValidationResult(FALSE, <<"Error checking OIDC provider">>,
                             << Str(get.err) >>), issued)
                    ELSE Raised(get.err, issued)

(***************************************************************************)
(* Provider responses the checks are run against                           *)
(***************************************************************************)
AccessDenied(op) == ClientError("AccessDenied", op, <<"User is not authorized to perform this operation">>)

StsResponses ==
    { Ok([Account |-> "918573727633", Arn |-> "arn:aws:iam::918573727633:user/dev"]),
      Fail(NoCredentialsError),
      Fail(ClientError("InvalidClientTokenId", "GetCallerIdentity",
                       <<"The security token included in the request is invalid">>)),
      Fail(EndpointConnectionError) }

OutputKeys == {"BucketName", "RoleArn"}
OutputValues == {"v1", "v2"}

\* the outputs of a stack: output keys are unique within a stack
OutputSeqs ==
    UNION { { outs \in [1..n -> [OutputKey : OutputKeys, OutputValue : OutputValues]] :
                \A i, j \in 1..n : i # j => outs[i].OutputKey # outs[j].OutputKey }
            : n \in 0..MaxOutputs }

StackStatuses == {"CREATE_COMPLETE", "UPDATE_COMPLETE", "ROLLBACK_COMPLETE", "DELETE_FAILED"}

StackNotFound(stack_name) ==
    ClientError("ValidationError", "DescribeStacks",
                <<"Stack with id ", stack_name, " ", "does not exist">>)

DescribeResponses(stack_name) ==
    { Ok([Stacks |-> << [StackStatus |-> st, Outputs |-> outs] >>]) :
          st \in StackStatuses, outs \in OutputSeqs }
    \cup { Ok([Stacks |-> << [StackStatus |-> st] >>]) : st \in StackStatuses }
    \cup { Fail(StackNotFound(stack_name)), Fail(AccessDenied("DescribeStacks")),
           Fail(EndpointConnectionError) }

HeadResponses ==
    { Ok([BucketRegion |-> "us-east-1"]),
      Fail(ClientError("404", "HeadBucket", <<"Not Found">>)),
      Fail(ClientError("403", "HeadBucket", <<"Forbidden">>)),
      Fail(ClientError("400", "HeadBucket", <<"Bad Request">>)),
      Fail(EndpointConnectionError) }

VersioningResponses ==
    { Ok([Status |-> "Enabled"]), Ok([Status |-> "Suspended"]),
      Ok([MFADelete |-> "Disabled"]),
      Fail(AccessDenied("GetBucketVersioning")), Fail(EndpointConnectionError) }

EncryptionResponses ==
    { Ok([ServerSideEncryptionConfiguration |-> "AES256"]),
      Fail(ClientError("ServerSideEncryptionConfigurationNotFoundError", "GetBucketEncryption",
                       <<"The server side encryption configuration was not found">>)),
      Fail(EndpointConnectionError) }

\* every configuration with each flag true, false or absent
PublicAccessConfigs == UNION { [S -> BOOLEAN] : S \in SUBSET PublicAccessFlags }

PublicAccessResponses ==
    { Ok([PublicAccessBlockConfiguration |-> config]) : config \in PublicAccessConfigs }
    \cup { Fail(ClientError("NoSuchPublicAccessBlockConfiguration", "GetPublicAccessBlock",
                            <<"The public access block configuration was not found">>)),
           Fail(EndpointConnectionError) }

GithubProviderArn ==
    <<"arn:aws:iam::918573727633:oidc-provider/", "token.actions.githubusercontent.com">>

OtherProviderArn ==
    <<"arn:aws:iam::918573727633:oidc-provider/", "gitlab.com">>

\* subject conditions a trust statement may carry, for the pair org/repo
SubConditions(org, repo) ==
    { <<"repo:", org, "/", repo, ":", "*">>,
      <<"repo:", org, "/", "other-repo", ":", "*">>,
      <<"repo:", org, "/", "*">>,
      <<"repo:", "evil-org", "/", "x", ":environment:", "repo:", org, "/", repo, ":", "*">> }

Principals ==
    { [Federated |-> GithubProviderArn], [Federated |-> OtherProviderArn],
      [Service |-> <<"ec2.amazonaws.com">>] }

Conditions(org, repo) ==
    { [StringLike |-> (SubKey :> sub)] : sub \in SubConditions(org, repo) }
    \cup { [StringEquals |-> ("token.actions.githubusercontent.com:aud" :> <<"sts.amazonaws.com">>)] }

Statements(org, repo) ==
    { [Effect |-> "Allow", Principal |-> p, Condition |-> c] :
          p \in Principals, c \in Conditions(org, repo) }
    \cup { [Effect |-> "Allow", Principal |-> p] : p \in Principals }

StatementSeqs(org, repo) ==
    UNION { [1..n -> Statements(org, repo)] : n \in 0..MaxStatements }

GetRoleResponses(org, repo) ==
    { Ok([Role |-> [AssumeRolePolicyDocument |-> [Version |-> "2012-10-17", Statement |-> stmts]]]) :
          stmts \in StatementSeqs(org, repo) }
    \cup { Ok([Role |-> [AssumeRolePolicyDocument |-> [Version |-> "2012-10-17"]]]),
           Fail(ClientError("NoSuchEntity", "GetRole", <<"The role cannot be found">>)),
           Fail(AccessDenied("GetRole")),
           Fail(EndpointConnectionError) }

ListProvidersResponses ==
    { Ok([OpenIDConnectProviderList |-> ps]) :
          ps \in UNION { [1..n -> { [Arn |-> GithubProviderArn], [Arn |-> OtherProviderArn] }]
                         : n \in 0..MaxProviders } }
    \cup { Fail(AccessDenied("ListOpenIDConnectProviders")), Fail(EndpointConnectionError) }

GetProviderResponses ==
    { Ok([ClientIDList |-> <<"sts.amazonaws.com">>]),
      Ok([ClientIDList |-> <<"sts.amazonaws.com", "other-audience">>]),
      Ok([Url |-> "token.actions.githubusercontent.com"]),
      Fail(AccessDenied("GetOpenIDConnectProvider")),
      Fail(EndpointConnectionError) }

(***************************************************************************)
(* main(): the runner                                                      *)
(***************************************************************************)
\* the defaults of the command line
args ==
    [stack_name  |-> "github-terraform-state",
     bucket_name |-> "williambrady-terraform-state-918573727633",
     role_name   |-> "github-actions-portfolio-github-management",
     github_org  |-> "williambrady",
     github_repo |-> "portfolio-github-management"]

NoExit == << >>

Init ==
    /\ pc = "parse_args"
    /\ session = "none"
    /\ results = << >>
    /\ calls = << >>
    /\ exit_code = NoExit
    /\ input = << >>
    /\ output = << >>

\* parser.parse_args(): argparse ends the process itself on --help (status 0)
\* and on a usage error (status 2)
ParseArgs ==
    /\ pc = "parse_args"
    /\ \E argv \in {"valid", "help", "usage_error"} :
         \/ /\ argv = "valid"
            /\ pc' = "get_session"
            /\ exit_code' = exit_code
         \/ /\ argv = "help"
            /\ pc' = "argparse_exit"
            /\ exit_code' = <<0>>
         \/ /\ argv = "usage_error"
            /\ pc' = "argparse_exit"
            /\ exit_code' = <<2>>
    /\ UNCHANGED <<session, results, calls, input, output>>

\* except Exception after get_session: print guidance, return 1
OnSessionError_Continue == [pc |-> "credentials", exit_code |-> NoExit]

OnSessionError == [pc |-> "returned", exit_code |-> <<1>>]

GetSession ==
    /\ pc = "get_session"
    /\ \E created \in BOOLEAN :
         IF created
         THEN /\ session' = "created"
              /\ pc' = "credentials"
              /\ exit_code' = exit_code
         ELSE /\ session' = "failed"
              /\ pc' = OnSessionError.pc
              /\ exit_code' = OnSessionError.exit_code
    /\ UNCHANGED <<results, calls, input, output>>

\* an exception that leaves main() reaches sys.exit(main()) uncaught: the
\* interpreter prints the traceback and ends the process with status 1
Uncaught ==
    /\ pc' = "uncaught"
    /\ exit_code' = <<1>>
    /\ results' = results

\* results.append((name, result))
Record(name, result) == Append(results, [name |-> name, result |-> result])

\* "Only continue if credentials are valid"
CredentialsGate_Never(result) == FALSE

CredentialsGate(result) == ~result.passed

CheckCredentials ==
    /\ pc = "credentials"
    /\ \E sts \in StsResponses :
         LET out == validate_aws_credentials(sts) IN
         /\ calls' = calls \o out.calls
         /\ IF out.raised THEN Uncaught
            ELSE /\ results' = Record("AWS Credentials", out.result)
                 /\ IF CredentialsGate(out.result)
                    THEN pc' = "returned" /\ exit_code' = <<1>>
                    ELSE pc' = "stack" /\ exit_code' = exit_code
    /\ UNCHANGED <<session, input, output>>

\* one of the checks 2-5: run it, record and print its result, go on
RunCheck(name, out, next) ==
    /\ calls' = calls \o out.calls
    /\ IF out.raised THEN Uncaught
       ELSE /\ results' = Record(name, out.result)
            /\ pc' = next
            /\ exit_code' = exit_code
    /\ UNCHANGED <<session, input, output>>

CheckStack ==
    /\ pc = "stack"
    /\ \E describe \in DescribeResponses(args.stack_name) :
         RunCheck("CloudFormation Stack",
                  validate_cloudformation_stack(args.stack_name, describe), "bucket")

CheckBucket ==
    /\ pc = "bucket"
    /\ \E head \in HeadResponses, versioning \in VersioningResponses,
          encryption \in EncryptionResponses, pab \in PublicAccessResponses :
         RunCheck("S3 Bucket",
                  validate_s3_bucket(args.bucket_name, head, versioning, encryption, pab),
                  "role")

CheckRole ==
    /\ pc = "role"
    /\ \E get_role \in GetRoleResponses(args.github_org, args.github_repo) :
         RunCheck("IAM Role",
                  validate_iam_role(args.role_name, args.github_org, args.github_repo, get_role),
                  "oidc")

CheckOidc ==
    /\ pc = "oidc"
    /\ \E list \in ListProvidersResponses, get \in GetProviderResponses :
         RunCheck("OIDC Provider", validate_oidc_provider(list, get), "summary")

\* passed = sum(1 for _, r in results if r.passed); total = len(results)
PassedCount(rs) == Cardinality({i \in 1..Len(rs) : rs[i].result.passed})

ExitStatus_AnyPassed(rs) == IF PassedCount(rs) > 0 THEN 0 ELSE 1

ExitStatus(rs) == IF PassedCount(rs) = Len(rs) THEN 0 ELSE 1

Summary ==
    /\ pc = "summary"
    /\ pc' = "returned"
    /\ exit_code' = <<ExitStatus(results)>>
    /\ UNCHANGED <<session, results, calls, input, output>>

Next ==
    \/ ParseArgs
    \/ GetSession
    \/ CheckCredentials
    \/ CheckStack
    \/ CheckBucket
    \/ CheckRole
    \/ CheckOidc
    \/ Summary

Spec == Init /\ [][Next]_vars

(***************************************************************************)
(* The check functions on their own: a call with inputs drawn in Init      *)
(***************************************************************************)
StackNames == {"github-terraform-state", "my-stack"}
BucketNames == {"williambrady-terraform-state-918573727633"}
RoleNames == {"github-actions-portfolio-github-management", "deployer"}

InitCall(inputs) ==
    /\ pc = "call"
    /\ input \in inputs
    /\ output = << >>
    /\ session = "created"
    /\ results = << >>
    /\ calls = << >>
    /\ exit_code = NoExit

Return(out) ==
    /\ pc = "call"
    /\ pc' = "returned"
    /\ output' = out
    /\ UNCHANGED <<session, results, calls, exit_code, input>>

InitStack ==
    InitCall(UNION { [stack_name : {n}, describe : DescribeResponses(n)] : n \in StackNames })

CallStack == Return(validate_cloudformation_stack(input.stack_name, input.describe))

SpecStack == InitStack /\ [][CallStack]_vars

InitBucket ==
    InitCall([bucket_name : BucketNames, head : HeadResponses,
              versioning : VersioningResponses, encryption : EncryptionResponses,
              pab : PublicAccessResponses])

CallBucket ==
    Return(validate_s3_bucket(input.bucket_name, input.head, input.versioning,
                              input.encryption, input.pab))

SpecBucket == InitBucket /\ [][CallBucket]_vars

InitRole ==
    InitCall([role_name : RoleNames, github_org : {args.github_org},
              github_repo : {args.github_repo},
              get_role : GetRoleResponses(args.github_org, args.github_repo)])

CallRole ==
    Return(validate_iam_role(input.role_name, input.github_org, input.github_repo,
                             input.get_role))

SpecRole == InitRole /\ [][CallRole]_vars

(***************************************************************************)
(* Properties of main()                                                    *)
(***************************************************************************)
CheckNames ==
    <<"AWS Credentials", "CloudFormation Stack", "S3 Bucket", "IAM Role", "OIDC Provider">>

Apis ==
    {"sts:GetCallerIdentity", "cloudformation:DescribeStacks", "s3:HeadBucket",
     "s3:GetBucketVersioning", "s3:GetBucketEncryption", "s3:GetPublicAccessBlock",
     "iam:GetRole", "iam:ListOpenIDConnectProviders", "iam:GetOpenIDConnectProvider"}

\* the check that issues a provider call
CheckOf(api) ==
    IF api = "sts:GetCallerIdentity" THEN "AWS Credentials"
    ELSE IF api = "cloudformation:DescribeStacks" THEN "CloudFormation Stack"
    ELSE IF api \in {"s3:HeadBucket", "s3:GetBucketVersioning", "s3:GetBucketEncryption",
                     "s3:GetPublicAccessBlock"} THEN "S3 Bucket"
    ELSE IF api = "iam:GetRole" THEN "IAM Role"
    ELSE "OIDC Provider"

Count(api) == Cardinality({i \in 1..Len(calls) : calls[i].api = api})

Ended == pc \in {"returned", "uncaught", "argparse_exit"}

CredentialsFailed == Len(results) >= 1 /\ ~results[1].result.passed
CredentialsPassed == Len(results) >= 1 /\ results[1].result.passed

AllFivePassed ==
    /\ Len(results) = 5
    /\ \A i \in 1..5 : results[i].result.passed

RecordedNames == [i \in 1..Len(results) |-> results[i].name]

\* C1: when the credentials check returns a failed result the run has stopped:
\* main() has returned with status 1, exactly one result is recorded and the
\* only provider call ever issued is the identity introspection of check 1.
C1_CredentialFailureStops ==
    CredentialsFailed =>
        /\ pc = "returned"
        /\ exit_code = <<1>>
        /\ Len(results) = 1
        /\ results[1].name = "AWS Credentials"
        /\ \A i \in 1..Len(calls) : calls[i].api = "sts:GetCallerIdentity"

C1_Witness ==
    /\ pc = "returned"
    /\ Len(results) = 1
    /\ results[1].result.message = <<"AWS credentials are invalid">>
    /\ Len(calls) = 1

\* C2 as stated: in every ended run the exit code is 0 exactly when all five
\* checks ran and passed, and is 1 otherwise.
C2_ExitCodeEveryRun ==
    Ended =>
        /\ (exit_code = <<0>>) <=> AllFivePassed
        /\ ~AllFivePassed => exit_code = <<1>>

\* C2 amended: in every ended run whose command line parsed, the exit code is
\* 0 exactly when all five checks ran and passed, and is 1 otherwise.
C2_ExitCodeParsedRun ==
    pc \in {"returned", "uncaught"} =>
        /\ (exit_code = <<0>>) <=> AllFivePassed
        /\ ~AllFivePassed => exit_code = <<1>>

C2_Witness ==
    /\ pc = "returned"
    /\ exit_code = <<0>>
    /\ AllFivePassed

\* C3: the results are recorded in the fixed order of the checks, the summary
\* is reached with exactly the five of them, and a run whose credentials check
\* passed does not end before all five checks have run.
C3_AllChecksAlwaysRun ==
    /\ Len(results) <= 5
    /\ RecordedNames = SubSeq(CheckNames, 1, Len(results))
    /\ pc = "summary" => Len(results) = 5
    /\ (Ended /\ CredentialsPassed) => Len(results) = 5

\* C4: when session construction fails main() has returned with status 1,
\* no provider call was issued and no result is recorded.
C4_SessionFailureStops ==
    session = "failed" =>
        /\ pc = "returned"
        /\ exit_code = <<1>>
        /\ results = << >>
        /\ calls = << >>

C4_Witness ==
    /\ session = "failed"
    /\ pc = "returned"
    /\ exit_code = <<1>>

\* C5: no error raised by a provider call leaves main() uncaught; every failed
\* call belongs to a check whose recorded result has passed = False and a
\* message, and once the credentials check has passed the run ends with all
\* five results.
C5_NoErrorEscapes ==
    /\ pc # "uncaught"
    /\ \A i \in 1..Len(calls) :
         ~calls[i].ok =>
             \E j \in 1..Len(results) :
                 /\ results[j].name = CheckOf(calls[i].api)
                 /\ ~results[j].result.passed
                 /\ results[j].result.message # << >>
    /\ (Ended /\ CredentialsPassed) => Len(results) = 5

\* a run in which every provider call succeeded and a federation provider matched
HappyRun ==
    /\ pc = "returned"
    /\ session = "created"
    /\ \A i \in 1..Len(calls) : calls[i].ok
    /\ ~(/\ Len(results) = 5
         /\ results[5].result.message = <<"GitHub OIDC provider not found">>)

\* C10: every provider call is issued at most once in a run (so a failed call
\* is never issued again), and exactly once each in a run where every call
\* succeeds and a federation provider matches.
C10_NoRetries ==
    /\ \A i \in 1..Len(calls) : calls[i].api \in Apis
    /\ \A api \in Apis : Count(api) <= 1
    /\ HappyRun => \A api \in Apis : Count(api) = 1

C10_Witness ==
    /\ HappyRun
    /\ Len(calls) = 9

(***************************************************************************)
(* Properties of validate_cloudformation_stack (under SpecStack)           *)
(***************************************************************************)
IsClientError(resp) == ~resp.ok /\ resp.err.class = "ClientError"

\* C9: the stack check passes exactly when the stack is described with status
\* CREATE_COMPLETE or UPDATE_COMPLETE, and then every output is a "key: value"
\* line of the details; another status fails with that status in the message;
\* the stack-not-found error fails with the deploy command for the given stack
\* name in the details; any other provider error fails with its text as
\* the details.
C9_StackOutcomes ==
    pc = "returned" =>
        LET describe == input.describe
            name == input.stack_name
            settled == describe.ok /\ describe.body.Stacks[1].StackStatus
                                         \in {"CREATE_COMPLETE", "UPDATE_COMPLETE"}
        IN
        /\ settled => ~output.raised /\ output.result.passed
        /\ (~output.raised /\ output.result.passed) => settled
        /\ settled =>
             LET outs == Get(describe.body.Stacks[1], "Outputs", << >>) IN
             /\ \A i \in 1..Len(outs) :
                  \E j \in 1..Len(output.result.details) :
                      output.result.details[j] =
                          <<outs[i].OutputKey, ": ", outs[i].OutputValue>>
             /\ Len(output.result.details) = Len(outs)
        /\ (describe.ok /\ ~settled) =>
             /\ ~output.raised
             /\ ~output.result.passed
             /\ Contains(<<describe.body.Stacks[1].StackStatus>>, output.result.message)
        /\ (~describe.ok /\ describe.err = StackNotFound(name)) =>
             /\ ~output.raised
             /\ ~output.result.passed
             /\ \E j \in 1..Len(output.result.details) :
                    Contains(<<"aws cloudformation deploy \\">>, output.result.details[j])
             /\ \E j \in 1..Len(output.result.details) :
                    Contains(<<"  --stack-name ", name>>, output.result.details[j])
        /\ (IsClientError(describe) /\ describe.err # StackNotFound(name)) =>
             /\ ~output.raised
             /\ ~output.result.passed
             /\ output.result.details = << Str(describe.err) >>

C9_Witness ==
    /\ pc = "returned"
    /\ input.describe.ok
    /\ input.describe.body.Stacks[1].StackStatus = "UPDATE_COMPLETE"
    /\ ~output.raised
    /\ output.result.passed
    /\ Len(output.result.details) = 2

(***************************************************************************)
(* Properties of validate_s3_bucket (under SpecBucket)                     *)
(***************************************************************************)
\* the configuration has the flag, set to true
FlagSet(config, f) == f \in DOMAIN config /\ config[f] = TRUE

BucketAllGood ==
    /\ input.head.ok
    /\ input.versioning.ok
    /\ "Status" \in DOMAIN input.versioning.body
    /\ input.versioning.body.Status = "Enabled"
    /\ input.encryption.ok
    /\ input.pab.ok
    /\ \A f \in {"BlockPublicAcls", "BlockPublicPolicy", "IgnorePublicAcls",
                 "RestrictPublicBuckets"} :
           FlagSet(input.pab.body.PublicAccessBlockConfiguration, f)

\* the sub-probes that follow the versioning retrieval answer or fail with a
\* provider error
ProbesAnswered ==
    /\ input.head.ok
    /\ input.versioning.ok
    /\ input.encryption.ok \/ IsClientError(input.encryption)
    /\ input.pab.ok \/ IsClientError(input.pab)

\* C6: the bucket check passes exactly when the bucket exists, versioning is
\* "Enabled", encryption is retrieved and all four public-access flags are
\* true; a missing versioning status is reported as "Disabled", and a provider
\* error on the encryption or public-access-block retrieval is not raised to
\* the caller but reported as "Disabled" / not blocked.
C6_BucketPassCondition ==
    pc = "returned" =>
        /\ BucketAllGood => ~output.raised /\ output.result.passed
        /\ (~output.raised /\ output.result.passed) => BucketAllGood
        /\ ProbesAnswered =>
             /\ ~output.raised
             /\ "Status" \notin DOMAIN input.versioning.body =>
                    output.result.details[1] = <<"Versioning: ", "Disabled">>
             /\ IsClientError(input.encryption) =>
                    output.result.details[2] = <<"Encryption: ", "Disabled">>
             /\ IsClientError(input.pab) =>
                    output.result.details[3] = <<"Public Access Blocked: ", "False">>

C6_Witness ==
    /\ pc = "returned"
    /\ input.head.ok
    /\ input.versioning.ok
    /\ Get(input.versioning.body, "Status", "") = "Enabled"
    /\ IsClientError(input.encryption)
    /\ input.pab.ok
    /\ \A f \in PublicAccessFlags : FlagSet(input.pab.body.PublicAccessBlockConfiguration, f)
    /\ ~output.raised
    /\ ~output.result.passed

\* the details list the versioning, encryption and public-access sub-statuses
ListsSubStatuses(details) ==
    /\ Len(details) = 3
    /\ details[1][1] = "Versioning: "
    /\ details[2][1] = "Encryption: "
    /\ details[3][1] = "Public Access Blocked: "

\* C7 as stated: every result the bucket check returns lists the three
\* sub-statuses in its details.
C7_EveryResultListsSubStatuses ==
    (pc = "returned" /\ ~output.raised) => ListsSubStatuses(output.result.details)

\* C7 amended: every result the bucket check returns after the existence probe
\* and the versioning retrieval succeeded, passing or failing, lists the three
\* sub-statuses in its details.
C7_ProbedResultListsSubStatuses ==
    (pc = "returned" /\ ~output.raised /\ input.head.ok /\ input.versioning.ok) =>
        ListsSubStatuses(output.result.details)

C7_Witness ==
    /\ pc = "returned"
    /\ ~output.raised
    /\ input.head.ok
    /\ input.versioning.ok
    /\ ~output.result.passed
    /\ ListsSubStatuses(output.result.details)

(***************************************************************************)
(* Properties of validate_iam_role (under SpecRole)                        *)
(***************************************************************************)
\* prefix is how s begins
StartsWith(s, prefix) == Len(s) >= Len(prefix) /\ SubSeq(s, 1, Len(prefix)) = prefix

\* C8: for a role that exists the check passes exactly when one statement has
\* a Federated principal containing the issuer hostname and a StringLike
\* subject condition beginning with repo:{org}/{repo}: ; with a federated
\* statement but none such it fails as 'trust policy may be incorrect', with
\* no federated statement it fails as 'does not have OIDC trust policy'.
C8_ThreeWayOutcome ==
    (pc = "returned" /\ input.get_role.ok) =>
        LET statements == Get(input.get_role.body.Role.AssumeRolePolicyDocument,
                              "Statement", << >>)
            federated(st) ==
                /\ "Principal" \in DOMAIN st
                /\ "Federated" \in DOMAIN st.Principal
                /\ Contains(<<"token.actions.githubusercontent.com">>, st.Principal.Federated)
            subject(st) ==
                /\ "Condition" \in DOMAIN st
                /\ "StringLike" \in DOMAIN st.Condition
                /\ SubKey \in DOMAIN st.Condition.StringLike
                /\ StartsWith(st.Condition.StringLike[SubKey],
                              <<"repo:", input.github_org, "/", input.github_repo, ":">>)
            some_federated == \E i \in 1..Len(statements) : federated(statements[i])
            some_both == \E i \in 1..Len(statements) :
                             federated(statements[i]) /\ subject(statements[i])
        IN
        /\ ~output.raised
        /\ output.result.passed <=> some_both
        /\ (some_federated /\ ~some_both) =>
             output.result.message =
                 <<"Role '", input.role_name, "' exists but trust policy may be incorrect">>
        /\ ~some_federated =>
             output.result.message =
                 <<"Role '", input.role_name, "' does not have OIDC trust policy">>

====
